---- MODULE Spec2Model ----
(***************************************************************************)
(* The report comparison page (src/src/pages/Comparison.tsx): the page's   *)
(* state (reports, loading), the mount effect loadComparison with its      *)
(* fetch, and what one render of the component computes from the state     *)
(* (best/worst classification, best opportunity, summary statistics).      *)
(*                                                                         *)
(* Numbers.  JavaScript numbers are modelled exactly: report fields are    *)
(* integers, and every quotient the render computes is kept as a reduced   *)
(* fraction [num, den]; NaN is the fraction 0/0 and Infinity is 1/0.       *)
(* Display-only report fields (project_name, client_name, location,        *)
(* risk_level, deadline_date) are read by no computation and are left out  *)
(* of the report record.                                                   *)
(***************************************************************************)
EXTENDS Integers, Sequences, FiniteSets, TLC

VARIABLES
    idsParam,   \* searchParams.get('ids'): [present, value], value a string
    pc,         \* position of loadComparison: mount, rejected, fetching, done
    location,   \* the router's current path
    posts,      \* bodies of the POST /api/reports/compare requests issued
    reports,    \* useState<ComparisonReport[]>([])
    loading,    \* useState(true)
    view,       \* what the last render of the route put on the screen
    authToken,  \* localStorage.getItem('auth_token'): [present, value]
    dashboard,  \* state of the Dashboard page: pc, reports, selectedReports
    upload,     \* state of the Upload page: file, uploading, uploadProgress,
                \* uploadComplete
    background  \* what outlives the page that started it: posts of Upload
                \* pages left while uploading, and redirect timeouts pending

\* the variables of the pages around the comparison page
appVars == <<authToken, dashboard, upload, background>>

vars == <<idsParam, pc, location, posts, reports, loading, view,
          authToken, dashboard, upload, background>>

(***************************************************************************)
(* Bounds of the model.                                                    *)
(***************************************************************************)
MaxReports == 3     \* longest report list a response carries
MaxParamLen == 3    \* longest ids query string, in characters
MaxLoads == 2       \* times the comparison page is loaded in a behaviour

(***************************************************************************)
(* JavaScript values.                                                      *)
(***************************************************************************)
Null == [tag |-> "null"]
NaN == [num |-> 0, den |-> 0]
Infinity == [num |-> 1, den |-> 0]
\* Number(token) of a token that is no numeral; report ids are >= 0
NaNId == -1

Abs(x) == IF x < 0 THEN -x ELSE x

RECURSIVE Gcd(_, _)
Gcd(a, b) == IF b = 0 THEN a ELSE Gcd(b, a % b)

\* a / b
Div(a, b) ==
    IF b = 0
    THEN IF a = 0 THEN NaN ELSE [num |-> IF a > 0 THEN 1 ELSE -1, den |-> 0]
    ELSE LET g == Gcd(Abs(a), Abs(b))
             s == IF b < 0 THEN -1 ELSE 1
         IN  [num |-> (s * a) \div g, den |-> (s * b) \div g]

Num(n) == [num |-> n, den |-> 1]

\* p + q and p / n for finite p, q
Add(p, q) == Div(p.num * q.den + q.num * p.den, p.den * q.den)
DivBy(p, n) == Div(p.num, p.den * n)

\* Math.floor in the place of Math.round
MathRound_Floor(p) ==
    IF p.den = 0 THEN p ELSE Num(p.num \div p.den)

\* Math.round: the nearest integer, a half rounded towards +Infinity
MathRound(p) ==
    IF p.den = 0 THEN p ELSE Num((2 * p.num + p.den) \div (2 * p.den))

RECURSIVE MathMin(_)
MathMin(s) ==
    IF Len(s) = 1 THEN s[1]
    ELSE LET m == MathMin(Tail(s)) IN IF s[1] < m THEN s[1] ELSE m

RECURSIVE MathMax(_)
MathMax(s) ==
    IF Len(s) = 1 THEN s[1]
    ELSE LET m == MathMax(Tail(s)) IN IF s[1] > m THEN s[1] ELSE m

\* array.map(f) for a field f
Map(s, f) == [i \in 1..Len(s) |-> s[i][f]]

(***************************************************************************)
(* Metric comparator: getBestValue, getWorstValue, getValueColor.          *)
(***************************************************************************)
Keys == {"budget_min", "budget_max", "risk_score", "duration_months"}

BEST == "bg-green-100 text-green-800 font-bold"
WORST == "bg-red-100 text-red-800"
NEUTRAL == ""

\* getBestValue taking the least value for every metric
getBestValue_AllLeast(key, rs) ==
    IF key = "risk_score" THEN MathMin(Map(rs, "risk_score"))
    ELSE IF key = "duration_months" THEN MathMin(Map(rs, "duration_months"))
    ELSE IF key = "budget_max" THEN MathMin(Map(rs, "budget_max"))
    ELSE MathMin(Map(rs, "budget_min"))

getBestValue(key, rs) ==
    IF key = "risk_score" THEN MathMin(Map(rs, "risk_score"))
    ELSE IF key = "duration_months" THEN MathMin(Map(rs, "duration_months"))
    ELSE IF key = "budget_max" THEN MathMax(Map(rs, "budget_max"))
    ELSE MathMin(Map(rs, "budget_min"))

\* getWorstValue taking the greatest value for every metric
getWorstValue_AllGreatest(key, rs) ==
    IF key = "risk_score" THEN MathMax(Map(rs, "risk_score"))
    ELSE IF key = "duration_months" THEN MathMax(Map(rs, "duration_months"))
    ELSE IF key = "budget_max" THEN MathMax(Map(rs, "budget_max"))
    ELSE MathMax(Map(rs, "budget_min"))

getWorstValue(key, rs) ==
    IF key = "risk_score" THEN MathMax(Map(rs, "risk_score"))
    ELSE IF key = "duration_months" THEN MathMax(Map(rs, "duration_months"))
    ELSE IF key = "budget_max" THEN MathMin(Map(rs, "budget_max"))
    ELSE MathMax(Map(rs, "budget_min"))

\* getValueColor comparing with the worst value first
getValueColor_WorstFirst(value, key, rs) ==
    LET best == getBestValue(key, rs)
        worst == getWorstValue(key, rs)
    IN  IF value = worst THEN WORST
        ELSE IF value = best THEN BEST
        ELSE NEUTRAL

\* getValueColor reads the component's reports; they are the parameter rs
getValueColor(value, key, rs) ==
    LET best == getBestValue(key, rs)
        worst == getWorstValue(key, rs)
    IN  IF value = best THEN BEST
        ELSE IF value = worst THEN WORST
        ELSE NEUTRAL

(***************************************************************************)
(* Opportunity scorer: findBestOpportunity.                                *)
(***************************************************************************)
\* Score adding 20 for a YES instead of taking it off
Score_YesAdds(report) ==
    LET s0 == 0
        s1 == s0 + report.risk_score * 10
        s2 == s1 + Len(report.risk_assessment.red_flags) * 5
        s3 == s2 + (IF report.participation_recommendation = "NO" THEN 50 ELSE 0)
        s4 == s3 + (IF report.participation_recommendation = "YES" THEN 20 ELSE 0)
    IN  [report |-> report, score |-> s4]

\* the body of the reports.map callback of findBestOpportunity
Score(report) ==
    LET s0 == 0
        s1 == s0 + report.risk_score * 10
        s2 == s1 + Len(report.risk_assessment.red_flags) * 5
        s3 == s2 + (IF report.participation_recommendation = "NO" THEN 50 ELSE 0)
        s4 == s3 + (IF report.participation_recommendation = "YES" THEN -20 ELSE 0)
    IN  [report |-> report, score |-> s4]

Scores(rs) == [i \in 1..Len(rs) |-> Score(rs[i])]

\* Insert putting x in front of the elements it ties with
RECURSIVE Insert_BeforeEqual(_, _)
Insert_BeforeEqual(x, s) ==
    IF s = <<>> THEN <<x>>
    ELSE IF x.score - s[1].score <= 0 THEN <<x>> \o s
    ELSE <<s[1]>> \o Insert_BeforeEqual(x, Tail(s))

\* one insertion of Array.prototype.sort with comparator a.score - b.score:
\* x goes behind every element the comparator does not order after it
RECURSIVE Insert(_, _)
Insert(x, s) ==
    IF s = <<>> THEN <<x>>
    ELSE IF x.score - s[1].score < 0 THEN <<x>> \o s
    ELSE <<s[1]>> \o Insert(x, Tail(s))

\* scores.sort((a, b) => a.score - b.score): a stable sort (ECMAScript 2019)
RECURSIVE Sort(_)
Sort(s) ==
    IF s = <<>> THEN <<>>
    ELSE Insert(s[Len(s)], Sort(SubSeq(s, 1, Len(s) - 1)))

TypeError == [tag |-> "TypeError"]

\* findBestOpportunity without its guard: scores[0] of no scores is
\* undefined, and reading .report of it throws
findBestOpportunity_NoGuard(rs) ==
    IF Len(rs) = 0 THEN TypeError
    ELSE Sort(Scores(rs))[1].report

findBestOpportunity(rs) ==
    IF Len(rs) = 0 THEN Null
    ELSE Sort(Scores(rs))[1].report

(***************************************************************************)
(* The arrays of a render.  reports is the array the component's state     *)
(* holds.  findBestOpportunity builds a second array, scores, with         *)
(* reports.map, and sorts that one in place; getBestValue and              *)
(* getWorstValue spread arrays that reports.map built, and the summary's   *)
(* reduce calls only read.                                                 *)
(***************************************************************************)
Arrays(rs) == [reports |-> rs, scores |-> <<>>]

\* findBestOpportunity sorting the reports themselves, in place
findBestOpportunityArrays_SortsReports(h) ==
    IF Len(h.reports) = 0 THEN h
    ELSE LET sorted == Sort(Scores(h.reports))
         IN  [h EXCEPT !.reports = [i \in 1..Len(sorted) |-> sorted[i].report]]

findBestOpportunityArrays(h) ==
    IF Len(h.reports) = 0 THEN h
    ELSE LET mapped == [h EXCEPT !.scores = Scores(h.reports)]
         IN  [mapped EXCEPT !.scores = Sort(mapped.scores)]

\* the reports array after a render of the route at loc
Rendered(loc, rs) ==
    IF loc = "/compare" THEN findBestOpportunityArrays(Arrays(rs)).reports
    ELSE rs

(***************************************************************************)
(* Summary statistics, as the render computes them.                        *)
(***************************************************************************)
\* reports.reduce((sum, r) => sum + f(r), 0) for f given as a sequence
RECURSIVE Reduce(_, _)
Reduce(s, sum) ==
    IF s = <<>> THEN sum ELSE Reduce(Tail(s), Add(sum, s[1]))

\* Summary averaging budget_max alone instead of the midpoints
Summary_NoMidpoint(rs) ==
    [ avgRisk |->
        DivBy(Reduce([i \in 1..Len(rs) |-> Num(rs[i].risk_score)], Num(0)),
              Len(rs)),
      avgBudget |->
        DivBy(Reduce([i \in 1..Len(rs) |-> Num(rs[i].budget_max)], Num(0)),
              Len(rs)),
      avgDuration |->
        MathRound(
          DivBy(Reduce([i \in 1..Len(rs) |-> Num(rs[i].duration_months)],
                       Num(0)),
                Len(rs))),
      totalRedFlags |->
        Reduce([i \in 1..Len(rs) |->
                  Num(Len(rs[i].risk_assessment.red_flags))], Num(0)).num ]

Summary(rs) ==
    [ avgRisk |->
        DivBy(Reduce([i \in 1..Len(rs) |-> Num(rs[i].risk_score)], Num(0)),
              Len(rs)),
      avgBudget |->
        DivBy(Reduce([i \in 1..Len(rs) |->
                        Div(rs[i].budget_min + rs[i].budget_max, 2)], Num(0)),
              Len(rs)),
      avgDuration |->
        MathRound(
          DivBy(Reduce([i \in 1..Len(rs) |-> Num(rs[i].duration_months)],
                       Num(0)),
                Len(rs))),
      totalRedFlags |->
        Reduce([i \in 1..Len(rs) |->
                  Num(Len(rs[i].risk_assessment.red_flags))], Num(0)).num ]

\* the Red Flags cell turning red from two flags on
redFlagColor_FromTwo(report) ==
    LET count == Len(report.risk_assessment.red_flags)
    IN  IF count = 0 THEN BEST
        ELSE IF count >= 2 THEN WORST
        ELSE NEUTRAL

\* the class of a Red Flags cell
redFlagColor(report) ==
    LET count == Len(report.risk_assessment.red_flags)
    IN  IF count = 0 THEN BEST
        ELSE IF count >= 3 THEN WORST
        ELSE NEUTRAL

(***************************************************************************)
(* One render of the /compare route.                                       *)
(***************************************************************************)
\* the render classifying the Budget Range cell by budget_min
Comparison_BudgetMin(ld, rs) ==
    LET bestOpportunity == findBestOpportunity(rs)
    IN  IF ld THEN [screen |-> "skeleton"]
        ELSE [ screen |-> "comparison",
               count |-> Len(rs),
               banner |-> IF bestOpportunity # Null
                          THEN <<bestOpportunity>> ELSE <<>>,
               budgetColor |->
                 [i \in 1..Len(rs) |->
                    getValueColor(rs[i].budget_min, "budget_min", rs)],
               riskColor |->
                 [i \in 1..Len(rs) |->
                    getValueColor(rs[i].risk_score, "risk_score", rs)],
               durationColor |->
                 [i \in 1..Len(rs) |->
                    getValueColor(rs[i].duration_months, "duration_months", rs)],
               redFlagColor |-> [i \in 1..Len(rs) |-> redFlagColor(rs[i])],
               summary |-> Summary(rs) ]

\* the render marking, in the duration row, only the first report that has
\* the best value
Comparison_FirstOnly(ld, rs) ==
    LET bestOpportunity == findBestOpportunity(rs)
        first == CHOOSE i \in 1..Len(rs) :
                   /\ rs[i].duration_months = getBestValue("duration_months", rs)
                   /\ \A j \in 1..(i - 1) :
                        rs[j].duration_months # rs[i].duration_months
    IN  IF ld THEN [screen |-> "skeleton"]
        ELSE [ screen |-> "comparison",
               count |-> Len(rs),
               banner |-> IF bestOpportunity # Null
                          THEN <<bestOpportunity>> ELSE <<>>,
               budgetColor |->
                 [i \in 1..Len(rs) |->
                    getValueColor(rs[i].budget_max, "budget_max", rs)],
               riskColor |->
                 [i \in 1..Len(rs) |->
                    getValueColor(rs[i].risk_score, "risk_score", rs)],
               durationColor |->
                 [i \in 1..Len(rs) |->
                    IF i = first THEN BEST
                    ELSE IF rs[i].duration_months =
                              getWorstValue("duration_months", rs)
                    THEN WORST ELSE NEUTRAL],
               redFlagColor |-> [i \in 1..Len(rs) |-> redFlagColor(rs[i])],
               summary |-> Summary(rs) ]

Comparison(ld, rs) ==
    LET bestOpportunity == findBestOpportunity(rs)
    IN  IF ld THEN [screen |-> "skeleton"]
        ELSE [ screen |-> "comparison",
               count |-> Len(rs),
               banner |-> IF bestOpportunity # Null
                          THEN <<bestOpportunity>> ELSE <<>>,
               budgetColor |->
                 [i \in 1..Len(rs) |->
                    getValueColor(rs[i].budget_max, "budget_max", rs)],
               riskColor |->
                 [i \in 1..Len(rs) |->
                    getValueColor(rs[i].risk_score, "risk_score", rs)],
               durationColor |->
                 [i \in 1..Len(rs) |->
                    getValueColor(rs[i].duration_months, "duration_months", rs)],
               redFlagColor |-> [i \in 1..Len(rs) |-> redFlagColor(rs[i])],
               summary |-> Summary(rs) ]

\* the Dashboard page as it mounts: its effect has started loadDashboard
DashboardInit ==
    [pc |-> "fetching", reports |-> <<>>, selectedReports |-> <<>>]

Range(s) == {s[i] : i \in 1..Len(s)}

\* one render of the Dashboard page, for what selection shows of it: a report
\* is taken by its id
DashboardPage(d) ==
    [ screen |-> "dashboard",
      rows |-> d.reports,
      checked |-> [i \in 1..Len(d.reports) |->
                     d.reports[i] \in Range(d.selectedReports)],
      selectAll |-> Len(d.selectedReports) = Len(d.reports)
                      /\ Len(d.reports) > 0,
      compareButton |-> IF Len(d.selectedReports) >= 2
                        THEN <<Len(d.selectedReports)>> ELSE <<>>,
      clearButton |-> Len(d.selectedReports) > 0 ]

Dashboard == DashboardPage(DashboardInit)
ReportDetail == [screen |-> "report"]

(***************************************************************************)
(* The ids query parameter: searchParams.get('ids')?.split(',').map(Number) *)
(* || [].  A string is a sequence of characters.                           *)
(***************************************************************************)
Digits == <<"0", "1", "2", "3", "4", "5", "6", "7", "8", "9">>

IsDigit(c) == \E d \in 1..Len(Digits) : Digits[d] = c
DigitVal(c) == (CHOOSE d \in 1..Len(Digits) : Digits[d] = c) - 1

\* str.split(','): cur is the piece being read
RECURSIVE SplitFrom(_, _)
SplitFrom(str, cur) ==
    IF str = <<>> THEN <<cur>>
    ELSE IF str[1] = "," THEN <<cur>> \o SplitFrom(Tail(str), <<>>)
    ELSE SplitFrom(Tail(str), Append(cur, str[1]))

Split(str) == SplitFrom(str, <<>>)

RECURSIVE Decimal(_, _)
Decimal(tok, acc) ==
    IF tok = <<>> THEN acc ELSE Decimal(Tail(tok), 10 * acc + DigitVal(tok[1]))

\* Number(tok): 0 for the empty string, NaN for what is no numeral
Number(tok) ==
    IF tok = <<>> THEN 0
    ELSE IF \A i \in 1..Len(tok) : IsDigit(tok[i]) THEN Decimal(tok, 0)
    ELSE NaNId

ParseIds(param) ==
    IF ~param.present THEN <<>>
    ELSE LET toks == Split(param.value)
         IN  [i \in 1..Len(toks) |-> Number(toks[i])]

\* String(n) of an integer n >= 0
RECURSIVE NumberToString(_)
NumberToString(n) ==
    IF n < 10 THEN <<Digits[n + 1]>>
    ELSE Append(NumberToString(n \div 10), Digits[(n % 10) + 1])

(***************************************************************************)
(* Fractional numbers.  A risk score is a number with a fraction (the      *)
(* pages show it with toFixed(1)), and JavaScript computes with it in IEEE *)
(* 754 binary64.  A finite double >= 0 is m * 2^e with m a natural number  *)
(* of 53 bits, kept as the sequence of its bits, least significant first;  *)
(* zero has no bits.  Sums and quotients are rounded to the nearest        *)
(* double, ties to even.                                                   *)
(***************************************************************************)
Precision == 53
\* bits a dividend is extended by, so that a quotient has more than
\* Precision bits
GuardBits == 64

Zero == [m |-> <<>>, e |-> 0]

RECURSIVE BitsOf(_)
BitsOf(n) == IF n = 0 THEN <<>> ELSE <<n % 2>> \o BitsOf(n \div 2)

RECURSIVE BitsVal(_)
BitsVal(b) == IF b = <<>> THEN 0 ELSE b[1] + 2 * BitsVal(Tail(b))

RECURSIVE Trim(_)
Trim(b) ==
    IF b = <<>> \/ b[Len(b)] = 1 THEN b ELSE Trim(SubSeq(b, 1, Len(b) - 1))

\* b * 2^k
ShiftLeft(b, k) == IF b = <<>> THEN b ELSE [i \in 1..k |-> 0] \o b

\* Sums and quotients are computed on limbs of LimbBits bits, the least
\* significant limb first
LimbBits == 15
Base == 2 ^ LimbBits

Bit(b, i) == IF i <= Len(b) THEN b[i] ELSE 0

Limbs(b) ==
    [j \in 1..((Len(b) + LimbBits - 1) \div LimbBits) |->
        BitsVal([i \in 1..LimbBits |-> Bit(b, (j - 1) * LimbBits + i)])]

Bits(ls) ==
    Trim([i \in 1..(LimbBits * Len(ls)) |->
            (ls[((i - 1) \div LimbBits) + 1] \div (2 ^ ((i - 1) % LimbBits))) % 2])

\* x + y + c for a carry c
RECURSIVE LimbsAdd(_, _, _)
LimbsAdd(x, y, c) ==
    IF x = <<>> /\ y = <<>> THEN (IF c = 1 THEN <<1>> ELSE <<>>)
    ELSE LET s == (IF x = <<>> THEN 0 ELSE x[1])
                    + (IF y = <<>> THEN 0 ELSE y[1]) + c
         IN  <<s % Base>> \o LimbsAdd(IF x = <<>> THEN x ELSE Tail(x),
                                      IF y = <<>> THEN y ELSE Tail(y),
                                      s \div Base)

\* quotient q and remainder r of x by a small integer d > 0
RECURSIVE LimbsDivMod(_, _)
LimbsDivMod(x, d) ==
    IF x = <<>> THEN [q |-> <<>>, r |-> 0]
    ELSE LET hi == LimbsDivMod(Tail(x), d)
             cur == hi.r * Base + x[1]
         IN  [q |-> <<cur \div d>> \o hi.q, r |-> cur % d]

\* a + b
BitsAdd(a, b) == Bits(LimbsAdd(Limbs(a), Limbs(b), 0))

BitsDivMod(b, d) ==
    LET x == LimbsDivMod(Limbs(b), d) IN [q |-> Bits(x.q), r |-> x.r]

\* the double nearest to b * 2^e, increased by a nonzero amount below the
\* last bit of b when sticky; a tie goes to the even double
RoundToNearest(b, e, sticky) ==
    LET n == Len(b)
    IN  IF n = 0 THEN Zero
        ELSE IF n <= Precision
        THEN [m |-> ShiftLeft(b, Precision - n), e |-> e - (Precision - n)]
        ELSE LET k == n - Precision
                 kept == SubSeq(b, k + 1, n)
                 half == b[k] = 1
                 rest == sticky \/ \E i \in 1..(k - 1) : b[i] = 1
                 up == half /\ (rest \/ kept[1] = 1)
                 r == IF up THEN BitsAdd(kept, <<1>>) ELSE kept
             IN  IF Len(r) > Precision
                 THEN [m |-> Tail(r), e |-> e + k + 1]
                 ELSE [m |-> r, e |-> e + k]

\* x + y
DoubleAdd(x, y) ==
    IF x.m = <<>> THEN y
    ELSE IF y.m = <<>> THEN x
    ELSE LET e == IF x.e < y.e THEN x.e ELSE y.e
         IN  RoundToNearest(BitsAdd(ShiftLeft(x.m, x.e - e),
                                    ShiftLeft(y.m, y.e - e)), e, FALSE)

\* x / n for an integer n >= 0
DoubleDiv(x, n) ==
    IF n = 0 THEN (IF x.m = <<>> THEN NaN ELSE Infinity)
    ELSE LET d == BitsDivMod(ShiftLeft(x.m, GuardBits), n)
         IN  RoundToNearest(d.q, x.e - GuardBits, d.r # 0)

\* the double of an integer n >= 0
FromInt(n) == RoundToNearest(BitsOf(n), 0, FALSE)

\* the double a numeral with one decimal denotes: the nearest to t / 10
Tenths(t) == DoubleDiv(FromInt(t), 10)

\* x.toFixed(1) for x < 2^52 (then x.e < 0): the text of the integer n for
\* which n / 10 is nearest to x, the larger n on a tie, with the point before
\* its last digit; n is (20 * m + 2^-e) \div 2^(1 - e)
toFixed1(x) ==
    IF x = NaN THEN <<"N", "a", "N">>
    ELSE LET twenty == BitsAdd(ShiftLeft(x.m, 4), ShiftLeft(x.m, 2))
             t == BitsAdd(twenty, ShiftLeft(<<1>>, -x.e))
             n == BitsVal(SubSeq(t, 2 - x.e, Len(t)))
         IN  NumberToString(n \div 10) \o <<".", Digits[(n % 10) + 1]>>

\* reports.reduce((sum, r) => sum + r.risk_score, 0) over doubles
RECURSIVE DoubleReduce(_, _)
DoubleReduce(s, sum) ==
    IF s = <<>> THEN sum ELSE DoubleReduce(Tail(s), DoubleAdd(sum, s[1]))

\* the Average Risk cell of the summary, line 330
AverageRisk(rs) ==
    toFixed1(DoubleDiv(DoubleReduce(Map(rs, "risk_score"), Zero), Len(rs)))

(***************************************************************************)
(* loadComparison, run once by the mount effect, and the fetch it awaits.  *)
(* A state update is followed by React's re-render of the route, so every  *)
(* step leaves in view the render of the state it produced.                *)
(***************************************************************************)
Route(loc, ld, rs) ==
    IF loc = "/compare" THEN Comparison(ld, rs)
    ELSE IF loc = "/" THEN Dashboard
    ELSE ReportDetail

\* loadComparison rejecting only an empty id list
LoadComparison_EmptyOnly ==
    /\ pc = "mount"
    /\ location = "/compare"
    /\ LET ids == ParseIds(idsParam)
       IN  IF Len(ids) < 1
           THEN /\ location' = "/"
                /\ loading' = FALSE
                /\ pc' = "rejected"
                /\ posts' = posts
                /\ view' = Route("/", FALSE, reports)
           ELSE /\ posts' = Append(posts, ids)
                /\ pc' = "fetching"
                /\ UNCHANGED <<location, loading, view>>
    /\ UNCHANGED <<idsParam, reports>>
    /\ UNCHANGED appVars

\* lines 33-40 and, on the early return, the finally block
LoadComparison ==
    /\ pc = "mount"
    /\ location = "/compare"
    /\ LET ids == ParseIds(idsParam)
       IN  IF Len(ids) < 2
           THEN /\ location' = "/"
                /\ loading' = FALSE
                /\ pc' = "rejected"
                /\ posts' = posts
                /\ view' = Route("/", FALSE, reports)
           ELSE /\ posts' = Append(posts, ids)
                /\ pc' = "fetching"
                /\ UNCHANGED <<location, loading, view>>
    /\ UNCHANGED <<idsParam, reports>>
    /\ UNCHANGED appVars

\* FetchOk rendering the best opportunity banner on the first load only
FetchOk_BannerOnce(rs) ==
    /\ pc = "fetching"
    /\ reports' = Rendered(location, rs)
    /\ loading' = FALSE
    /\ pc' = "done"
    /\ view' = IF Len(posts) = 1 THEN Route(location, FALSE, rs)
                ELSE [Route(location, FALSE, rs) EXCEPT !.banner = <<>>]
    /\ UNCHANGED <<idsParam, location, posts>>
    /\ UNCHANGED appVars

\* the POST resolves with response.data.reports = rs: lines 41 and 45
FetchOk(rs) ==
    /\ pc = "fetching"
    /\ reports' = Rendered(location, rs)
    /\ loading' = FALSE
    /\ pc' = "done"
    /\ view' = Route(location, FALSE, rs)
    /\ UNCHANGED <<idsParam, location, posts>>
    /\ UNCHANGED appVars

\* the POST rejects: lines 42-45
FetchFail ==
    /\ pc = "fetching"
    /\ loading' = FALSE
    /\ pc' = "done"
    /\ view' = Route(location, FALSE, reports)
    /\ UNCHANGED <<idsParam, location, posts, reports>>
    /\ UNCHANGED appVars

\* the Back to Dashboard button, line 132
BackToDashboard ==
    /\ location = "/compare"
    /\ view.screen = "comparison"
    /\ location' = "/"
    /\ view' = Dashboard
    /\ UNCHANGED <<idsParam, pc, posts, reports, loading>>
    /\ UNCHANGED appVars

\* a View Full Report button, line 312
ViewFullReport(i) ==
    /\ location = "/compare"
    /\ view.screen = "comparison"
    /\ i \in 1..Len(reports)
    /\ location' = "/report"
    /\ view' = ReportDetail
    /\ UNCHANGED <<idsParam, pc, posts, reports, loading>>
    /\ UNCHANGED appVars

\* a navigation button of the layout (src/src/App.tsx, line 46)
NavDashboard ==
    /\ location = "/compare"
    /\ location' = "/"
    /\ view' = Dashboard
    /\ UNCHANGED <<idsParam, pc, posts, reports, loading>>
    /\ UNCHANGED appVars

\* the browser loads the URL of the page again: the component mounts with
\* its initial state (lines 22-26) and the mount effect runs loadComparison
\* up to its await (lines 28-40)
Reload ==
    /\ location = "/compare"
    /\ pc = "done"
    /\ Len(posts) < MaxLoads
    /\ Len(ParseIds(idsParam)) >= 2
    /\ posts' = Append(posts, ParseIds(idsParam))
    /\ reports' = <<>>
    /\ loading' = TRUE
    /\ pc' = "fetching"
    /\ view' = Route(location, TRUE, <<>>)
    /\ UNCHANGED <<idsParam, location>>
    /\ UNCHANGED appVars

\* React renders the component once more: the whole function body runs
\* again on the state as it is, line 116 included
Rerender ==
    /\ location = "/compare"
    /\ pc = "done"
    /\ reports' = Rendered(location, reports)
    /\ view' = Route(location, loading, reports)
    /\ UNCHANGED <<idsParam, pc, location, posts, loading>>
    /\ UNCHANGED appVars

(***************************************************************************)
(* What the outside supplies: the URL and the responses of the server.     *)
(***************************************************************************)
SeqsUpTo(S, n) == UNION {[1..k -> S] : k \in 0..n}

Alphabet == {"1", "2", ",", "x"}

Params ==
    {[present |-> FALSE, value |-> <<>>]}
      \cup {[present |-> TRUE, value |-> v] : v \in SeqsUpTo(Alphabet, MaxParamLen)}

RiskScores == <<2, 4, 8>>
FlagCounts == <<0, 2, 3>>
Recommendations == <<"YES", "NO", "MAYBE">>
Budgets == <<100, 150, 200>>
Durations == <<6, 9, 12>>

Body(risk, flags, rec, bmin, bmax, dur) ==
    [ budget_min |-> bmin,
      budget_max |-> bmax,
      duration_months |-> dur,
      risk_score |-> risk,
      participation_recommendation |-> rec,
      risk_assessment |-> [red_flags |-> [k \in 1..flags |-> "flag"]] ]

\* Report bodies: a grid over risk score and red flag count, the other
\* fields varying along its diagonals, and one report whose recommendation
\* is none of YES, NO, MAYBE.  Body(2, 0, "YES", ..) and Body(8, 3, "NO", ..)
\* are the reports A and B of the specification's first example.
Bodies ==
    { Body(RiskScores[a + 1], FlagCounts[b + 1],
           Recommendations[((a + b) % 3) + 1],
           Budgets[((a + 2 * b) % 3) + 1], Budgets[b + 1],
           Durations[((2 * a + 2 * b) % 3) + 1]) :
        a \in 0..2, b \in 0..2 }
      \cup {Body(4, 0, "REVIEW", 150, 150, 9)}

FewBodies ==
    { Body(2, 0, "YES", 100, 200, 6),
      Body(8, 3, "NO", 150, 150, 9) }

\* a response: the reports carry unique ids, here their place in the list
Response(bodies) ==
    [i \in 1..Len(bodies) |-> [id |-> i] @@ bodies[i]]

Responses == {Response(b) : b \in SeqsUpTo(Bodies, MaxReports)}
FewResponses == {Response(b) : b \in SeqsUpTo(FewBodies, MaxReports)}

\* the fetch settles: the POST resolves with some list of reports, or rejects
Settle(responses) ==
    /\ pc = "fetching"
    /\ \/ \E rs \in responses : FetchOk(rs)
       \/ FetchFail

(***************************************************************************)
(* The application (src/src/App.tsx): the auth_token entry of local        *)
(* storage, PrivateRoute, the routes, and navigation.  "/report" stands    *)
(* for the paths /report/:id and "/settings" for the paths no route names. *)
(***************************************************************************)
Token(v) == [present |-> TRUE, value |-> v]
NoToken == [present |-> FALSE, value |-> ""]

\* the auth_token entry: none, the empty string, a JWT
Tokens == {NoToken, Token(""), Token("jwt")}

\* `token ?` of PrivateRoute: null and the empty string are falsy
Truthy(token) == token.present /\ token.value # ""

\* the Upload page as it mounts; dragActive, which only styles the drop
\* zone, is left out.  interval: the progress interval of the running
\* handleUpload is set; staleIntervals: intervals of failed uploads, which
\* the catch block does not clear
UploadInit ==
    [ file |-> Null, uploading |-> FALSE, uploadProgress |-> 0,
      uploadComplete |-> FALSE, interval |-> FALSE, staleIntervals |-> 0 ]

NoBackground == [posts |-> 0, timers |-> 0]

Login == [screen |-> "login"]

\* one render of the Upload page
UploadPage(up) ==
    [ screen |-> "upload",
      dropZone |-> up.file = Null,
      file |-> up.file,
      removeButton |-> up.file # Null /\ ~up.uploading,
      progress |-> IF up.file # Null /\ up.uploading
                   THEN <<up.uploadProgress>> ELSE <<>>,
      success |-> up.file # Null /\ up.uploadComplete,
      badges |-> IF up.file # Null
                 THEN <<"Valid PDF format", "Size under 10MB">> ELSE <<>>,
      uploadButton |-> up.file # Null /\ ~up.uploading /\ ~up.uploadComplete ]

\* <Navigate to=... />
NavigateElement(to) == [navigate |-> to]

\* PrivateRoute rendering its children whatever the token
PrivateRoute_AlwaysChildren(token, children) == children

PrivateRoute(token, children) ==
    IF Truthy(token) THEN children ELSE NavigateElement("/login")

Paths == {"/login", "/", "/upload", "/report", "/compare", "/settings"}

\* the element <Routes> renders for a path, lines 103-138
Routes(loc, token, ld, rs, up, d) ==
    IF loc = "/login" THEN Login
    ELSE IF loc = "/" THEN PrivateRoute(token, DashboardPage(d))
    ELSE IF loc = "/upload" THEN PrivateRoute(token, UploadPage(up))
    ELSE IF loc = "/report" THEN PrivateRoute(token, ReportDetail)
    ELSE IF loc = "/compare" THEN PrivateRoute(token, Comparison(ld, rs))
    ELSE NavigateElement("/")

\* the application at a path: a <Navigate> element takes the router to its
\* target, which is rendered in turn
RECURSIVE App(_, _, _, _, _, _)
App(loc, token, ld, rs, up, d) ==
    LET element == Routes(loc, token, ld, rs, up, d)
    IN  IF "navigate" \in DOMAIN element
        THEN App(element.navigate, token, ld, rs, up, d)
        ELSE [location |-> loc, view |-> element]

\* the router goes to path while token is in local storage: the page shown
\* unmounts and the element of the path mounts, every page in its initial
\* state
Mount(path, token) ==
    LET app == App(path, token, TRUE, <<>>, UploadInit, DashboardInit)
    IN  /\ location' = app.location
        /\ view' = app.view
        /\ pc' = "mount"
        /\ reports' = <<>>
        /\ loading' = TRUE
        /\ dashboard' = DashboardInit
        /\ upload' = UploadInit

\* the POST of an Upload page goes on when the page unmounts
LeftBehind(bg) ==
    [bg EXCEPT !.posts =
        @ + (IF upload.uploading /\ ~upload.uploadComplete THEN 1 ELSE 0)]

\* navigate(path) while bg is pending.  To the path the router is at, the
\* route renders again: PrivateRoute reads the token, and with a token the
\* page stays mounted as it is
Go(path, bg) ==
    IF path = location /\ Truthy(authToken)
    THEN /\ background' = bg
         /\ UNCHANGED <<idsParam, pc, location, reports, loading, view,
                        dashboard, upload>>
    ELSE /\ Mount(path, authToken)
         /\ idsParam' = [present |-> FALSE, value |-> <<>>]
         /\ background' = LeftBehind(bg)

\* the paths the buttons of a screen navigate to: the header of Layout on
\* every screen but the login page, and the buttons of the page
Buttons(v) ==
    IF v.screen = "login" THEN {}
    ELSE {"/", "/upload"}
           \cup (IF v.screen = "dashboard" /\ v.rows # <<>>
                 THEN {"/report"} ELSE {})
           \cup (IF v.screen = "comparison" THEN {"/report"} ELSE {})

\* a button that navigates is clicked
Navigate(to) ==
    /\ to \in Buttons(view)
    /\ Go(to, background)
    /\ UNCHANGED <<posts, authToken>>

\* Logout, in the header of Layout
handleLogout ==
    /\ view.screen # "login"
    /\ authToken' = NoToken
    /\ Mount("/login", NoToken)
    /\ idsParam' = [present |-> FALSE, value |-> <<>>]
    /\ background' = LeftBehind(background)
    /\ UNCHANGED posts

\* the browser loads the application at a path: nothing of the page before
\* is left
OpenUrl(path) ==
    /\ Mount(path, authToken)
    /\ idsParam' = [present |-> FALSE, value |-> <<>>]
    /\ background' = NoBackground
    /\ UNCHANGED <<posts, authToken>>

\* the auth_token entry is written or removed while the application runs:
\* by the login page, by another tab, by the user.  Nothing renders
StorageChanged(token) ==
    /\ token # authToken
    /\ authToken' = token
    /\ UNCHANGED <<idsParam, pc, location, posts, reports, loading, view,
                   dashboard, upload, background>>

(***************************************************************************)
(* The Dashboard page (src/unnamed/part_000, lines 416-661): the list of   *)
(* reports and the selection of reports to compare.                        *)
(***************************************************************************)
\* ids of the n reports /api/reports answers with: distinct, of one to
\* three digits
DashboardIds(n) == [i \in 1..n |-> 5 * i * i]

\* ids.join(',')
RECURSIVE Join(_)
Join(ids) ==
    IF ids = <<>> THEN <<>>
    ELSE IF Len(ids) = 1 THEN NumberToString(ids[1])
    ELSE NumberToString(ids[1]) \o <<",">> \o Join(Tail(ids))

\* prev.filter(id => id !== reportId)
RECURSIVE Without(_, _)
Without(prev, reportId) ==
    IF prev = <<>> THEN <<>>
    ELSE IF prev[1] = reportId THEN Without(Tail(prev), reportId)
    ELSE <<prev[1]>> \o Without(Tail(prev), reportId)

\* a handler of the Dashboard page has set its state to d: the page renders
\* again, nothing else moves
DashboardSet(d) ==
    /\ dashboard' = d
    /\ view' = DashboardPage(d)
    /\ UNCHANGED <<idsParam, pc, location, posts, reports, loading,
                   authToken, upload, background>>

\* loadDashboard, both requests answered: n reports
LoadDashboardOk(n) ==
    /\ location = "/"
    /\ dashboard.pc = "fetching"
    /\ DashboardSet([dashboard EXCEPT !.pc = "done",
                                      !.reports = DashboardIds(n)])

\* loadDashboard, a request failed: the error is logged
LoadDashboardFail ==
    /\ location = "/"
    /\ dashboard.pc = "fetching"
    /\ DashboardSet([dashboard EXCEPT !.pc = "done"])

\* toggleReportSelection emptying the selection when a row is unchecked
toggleReportSelection_UncheckClears(reportId) ==
    /\ location = "/"
    /\ reportId \in Range(dashboard.reports)
    /\ DashboardSet([dashboard EXCEPT !.selectedReports =
            IF reportId \in Range(@) THEN <<>> ELSE Append(@, reportId)])

\* the checkbox of a row
toggleReportSelection(reportId) ==
    /\ location = "/"
    /\ reportId \in Range(dashboard.reports)
    /\ DashboardSet([dashboard EXCEPT !.selectedReports =
            IF reportId \in Range(@) THEN Without(@, reportId)
            ELSE Append(@, reportId)])

\* the checkbox of the table head: a click inverts what it shows
SelectAll ==
    /\ location = "/"
    /\ LET checked == ~view.selectAll
       IN  DashboardSet([dashboard EXCEPT !.selectedReports =
                            IF checked THEN dashboard.reports ELSE <<>>])

\* Clear Selection, shown while something is selected
ClearSelection ==
    /\ location = "/"
    /\ view.clearButton
    /\ DashboardSet([dashboard EXCEPT !.selectedReports = <<>>])

\* navigate(`/compare?ids=${ids.join(',')}`)
NavigateCompare(ids) ==
    /\ Mount("/compare", authToken)
    /\ idsParam' = [present |-> TRUE, value |-> Join(ids)]
    /\ UNCHANGED <<posts, authToken, background>>

\* handleCompare without its upper limit
handleCompare_NoCeiling ==
    /\ location = "/"
    /\ view.compareButton # <<>>
    /\ IF Len(dashboard.selectedReports) >= 2
       THEN NavigateCompare(dashboard.selectedReports)
       ELSE UNCHANGED vars

\* the Compare button, shown from two selected reports on
handleCompare ==
    /\ location = "/"
    /\ view.compareButton # <<>>
    /\ IF Len(dashboard.selectedReports) >= 2
          /\ Len(dashboard.selectedReports) <= 5
       THEN NavigateCompare(dashboard.selectedReports)
       ELSE UNCHANGED vars

(***************************************************************************)
(* The Upload page (src/src/pages/Upload.tsx).  A file is its name, a      *)
(* sequence of characters, and its size in bytes.                          *)
(***************************************************************************)
UpperCase == <<"A", "D", "F", "P", "T", "X">>
LowerCase == <<"a", "d", "f", "p", "t", "x">>

\* String.prototype.toLowerCase, on the letters the file names are made of
toLowerCase(str) ==
    [i \in 1..Len(str) |->
        IF \E k \in 1..Len(UpperCase) : UpperCase[k] = str[i]
        THEN LowerCase[CHOOSE k \in 1..Len(UpperCase) : UpperCase[k] = str[i]]
        ELSE str[i]]

\* String.prototype.endsWith
endsWith(str, suffix) ==
    /\ Len(str) >= Len(suffix)
    /\ \A i \in 1..Len(suffix) :
          str[Len(str) - Len(suffix) + i] = suffix[i]

\* the files a user may pick or drop: with and without the extension, in
\* either case, and sizes around the limit
FileNames ==
    { <<"a", ".", "p", "d", "f">>, <<"A", ".", "P", "D", "F">>,
      <<"a", ".", "P", "d", "f">>, <<"a", ".", "t", "x", "t">>,
      <<"p", "d", "f">>, <<"a", ".", "p", "d", "f", "x">> }
FileSizes ==
    {0, 10 * 1024 * 1024 - 1, 10 * 1024 * 1024, 10 * 1024 * 1024 + 1}
Files == [name : FileNames, size : FileSizes]

\* a handler or a timer of the Upload page has set its state to up: the
\* page renders again
UploadSet(up) ==
    /\ upload' = up
    /\ view' = UploadPage(up)
    /\ UNCHANGED <<idsParam, pc, location, posts, reports, loading,
                   authToken, dashboard>>

\* handleFile, which handleDrop and handleFileSelect call with the first
\* file of the drop or of the input; both belong to the drop zone.  A
\* rejection is an alert
handleFile(selectedFile) ==
    /\ location = "/upload"
    /\ view.dropZone
    /\ IF ~endsWith(toLowerCase(selectedFile.name), <<".", "p", "d", "f">>)
       THEN UNCHANGED vars
       ELSE IF selectedFile.size > 10 * 1024 * 1024
       THEN UNCHANGED vars
       ELSE /\ UploadSet([upload EXCEPT !.file = selectedFile])
            /\ UNCHANGED background

\* the button beside the file name: setFile(null)
RemoveFile ==
    /\ location = "/upload"
    /\ view.removeButton
    /\ UploadSet([upload EXCEPT !.file = Null])
    /\ UNCHANGED background

\* POSTs and redirect timers that may be pending at a time, and intervals
\* of failed uploads that may be running when an upload starts
MaxPending == 2
MaxStaleIntervals == 1

\* handleUpload up to its await: the progress interval is set and the POST
\* is sent
handleUpload ==
    /\ location = "/upload"
    /\ view.uploadButton
    /\ background.posts + background.timers < MaxPending
    /\ upload.staleIntervals < MaxStaleIntervals
    /\ UploadSet([upload EXCEPT !.uploading = TRUE, !.uploadProgress = 0,
                                !.interval = TRUE])
    /\ UNCHANGED background

\* Tick stopping only above 90
Tick_Above90(up, st) ==
    IF up.uploadProgress > 90
    THEN IF st THEN [up EXCEPT !.staleIntervals = @ - 1]
         ELSE [up EXCEPT !.interval = FALSE]
    ELSE [up EXCEPT !.uploadProgress = @ + 10]

\* what an interval does when it fires: st says whether it is the interval
\* of a failed upload
Tick(up, st) ==
    IF up.uploadProgress >= 90
    THEN IF st THEN [up EXCEPT !.staleIntervals = @ - 1]
         ELSE [up EXCEPT !.interval = FALSE]
    ELSE [up EXCEPT !.uploadProgress = @ + 10]

\* the interval of the running handleUpload fires
ProgressTick ==
    /\ location = "/upload"
    /\ upload.interval
    /\ UploadSet(Tick(upload, FALSE))
    /\ UNCHANGED background

\* an interval of a failed upload fires: the catch block cleared none
StaleTick ==
    /\ location = "/upload"
    /\ upload.staleIntervals > 0
    /\ UploadSet(Tick(upload, TRUE))
    /\ UNCHANGED background

\* UploadOk without the timeout that takes the user to the dashboard
UploadOk_NoTimeout ==
    /\ location = "/upload"
    /\ upload.uploading /\ ~upload.uploadComplete
    /\ UploadSet([upload EXCEPT !.interval = FALSE, !.uploadProgress = 100,
                                !.uploadComplete = TRUE])
    /\ UNCHANGED background

\* the POST resolves: the rest of the try block
UploadOk ==
    /\ location = "/upload"
    /\ upload.uploading /\ ~upload.uploadComplete
    /\ UploadSet([upload EXCEPT !.interval = FALSE, !.uploadProgress = 100,
                                !.uploadComplete = TRUE])
    /\ background' = [background EXCEPT !.timers = @ + 1]

\* the POST rejects: the catch block
UploadFail ==
    /\ location = "/upload"
    /\ upload.uploading /\ ~upload.uploadComplete
    /\ UploadSet([upload EXCEPT
          !.uploading = FALSE, !.uploadProgress = 0, !.interval = FALSE,
          !.staleIntervals = @ + (IF upload.interval THEN 1 ELSE 0)])
    /\ UNCHANGED background

\* the timeout of a successful upload fires: navigate('/'), whatever page
\* is shown by then
RedirectTimeout ==
    /\ background.timers > 0
    /\ Go("/", [background EXCEPT !.timers = @ - 1])
    /\ UNCHANGED <<posts, authToken>>

\* the POST of an Upload page that is gone settles: resolved, its timeout is
\* set (the state it sets is the state of no mounted page); rejected, an
\* alert
LeftPostSettles(ok) ==
    /\ background.posts > 0
    /\ background' = [background EXCEPT
                        !.posts = @ - 1,
                        !.timers = @ + (IF ok THEN 1 ELSE 0)]
    /\ UNCHANGED <<idsParam, pc, location, posts, reports, loading, view,
                   authToken, dashboard, upload>>

\* the application around a Comparison page studied on its own: a signed-in
\* user, no other page mounted, nothing left behind by an Upload page
SignedIn ==
    /\ authToken = Token("jwt")
    /\ dashboard = DashboardInit
    /\ upload = UploadInit
    /\ background = NoBackground

(***************************************************************************)
(* Spec: the page from its mount, for every ids parameter.                 *)
(***************************************************************************)
Init ==
    /\ idsParam \in Params
    /\ pc = "mount"
    /\ location = "/compare"
    /\ posts = <<>>
    /\ reports = <<>>
    /\ loading = TRUE
    /\ view = Comparison(TRUE, <<>>)
    /\ SignedIn

Next ==
    \/ LoadComparison
    \/ Settle(FewResponses)
    \/ BackToDashboard
    \/ \E i \in 1..MaxReports : ViewFullReport(i)
    \/ NavDashboard
    \/ Rerender

Spec == Init /\ [][Next]_vars

(***************************************************************************)
(* SpecEngine: the page awaiting the reports of /compare?ids=1,2, for      *)
(* every response; what is rendered is the engine's result on the list.    *)
(***************************************************************************)
InitEngine ==
    /\ idsParam = [present |-> TRUE, value |-> <<"1", ",", "2">>]
    /\ pc = "fetching"
    /\ location = "/compare"
    /\ posts = <<ParseIds(idsParam)>>
    /\ reports = <<>>
    /\ loading = TRUE
    /\ view = Comparison(TRUE, <<>>)
    /\ SignedIn

NextEngine ==
    \/ Settle(Responses)
    \/ Rerender
    \/ Reload

SpecEngine == InitEngine /\ [][NextEngine]_vars

(***************************************************************************)
(* SpecRisk: the same page for reports whose risk scores have a fraction.  *)
(* A report is taken by its id and its risk_score, a double, and the       *)
(* render by its Average Risk cell.                                        *)
(***************************************************************************)
MaxRiskReports == 4

\* risk scores 1.0, 1.1, 1.2 and 4.5, in tenths
RiskTenths == {10, 11, 12, 45}

RiskResponses ==
    { [i \in 1..Len(l) |-> [id |-> i, risk_score |-> Tenths(l[i])]] :
        l \in SeqsUpTo(RiskTenths, MaxRiskReports) }

\* the POST resolves with response.data.reports = rs: lines 41 and 45
FetchOkRisk(rs) ==
    /\ pc = "fetching"
    /\ reports' = rs
    /\ loading' = FALSE
    /\ pc' = "done"
    /\ view' = [ screen |-> "comparison",
                 count |-> Len(rs),
                 avgRisk |-> AverageRisk(rs) ]
    /\ UNCHANGED <<idsParam, location, posts>>
    /\ UNCHANGED appVars

InitRisk ==
    /\ idsParam = [present |-> TRUE, value |-> <<"1", ",", "2">>]
    /\ pc = "fetching"
    /\ location = "/compare"
    /\ posts = <<ParseIds(idsParam)>>
    /\ reports = <<>>
    /\ loading = TRUE
    /\ view = Comparison(TRUE, <<>>)
    /\ SignedIn

NextRisk ==
    /\ pc = "fetching"
    /\ \E rs \in RiskResponses : FetchOkRisk(rs)

SpecRisk == InitRisk /\ [][NextRisk]_vars

(***************************************************************************)
(* SpecDashboard: a signed-in user on the Dashboard page, from its mount   *)
(* to the navigation handleCompare makes.                                  *)
(***************************************************************************)
MaxDashboardReports == 6

InitDashboard ==
    /\ idsParam = [present |-> FALSE, value |-> <<>>]
    /\ pc = "mount"
    /\ location = "/"
    /\ posts = <<>>
    /\ reports = <<>>
    /\ loading = TRUE
    /\ view = Dashboard
    /\ SignedIn

NextDashboard ==
    \/ \E n \in 0..MaxDashboardReports : LoadDashboardOk(n)
    \/ LoadDashboardFail
    \/ \E reportId \in Range(dashboard.reports) :
          toggleReportSelection(reportId)
    \/ SelectAll
    \/ ClearSelection
    \/ handleCompare

SpecDashboard == InitDashboard /\ [][NextDashboard]_vars

(***************************************************************************)
(* SpecApp: the application from a first visit, with the routes, the       *)
(* header, the Upload page, and a Dashboard page that lists few reports.   *)
(***************************************************************************)
FewDashboardReports == 1

InitApp ==
    /\ idsParam = [present |-> FALSE, value |-> <<>>]
    /\ pc = "mount"
    /\ location = "/login"
    /\ posts = <<>>
    /\ reports = <<>>
    /\ loading = TRUE
    /\ view = Login
    /\ authToken = NoToken
    /\ dashboard = DashboardInit
    /\ upload = UploadInit
    /\ background = NoBackground

NextApp ==
    \/ \E path \in Paths : OpenUrl(path)
    \/ \E to \in Paths : Navigate(to)
    \/ handleLogout
    \/ \E token \in Tokens : StorageChanged(token)
    \/ RedirectTimeout
    \/ \E ok \in BOOLEAN : LeftPostSettles(ok)
    \/ \E n \in 0..FewDashboardReports : LoadDashboardOk(n)
    \/ LoadDashboardFail
    \/ \E selectedFile \in Files : handleFile(selectedFile)
    \/ RemoveFile
    \/ handleUpload
    \/ ProgressTick
    \/ StaleTick
    \/ UploadOk
    \/ UploadFail

SpecApp == InitApp /\ [][NextApp]_vars

(***************************************************************************)
(* SpecUpload: a signed-in user who opened the Upload page and stays in    *)
(* the application: the page, the header, the dashboard the redirect leads *)
(* to.  A timeout that was set fires in the end.                           *)
(***************************************************************************)
InitUpload ==
    /\ idsParam = [present |-> FALSE, value |-> <<>>]
    /\ pc = "mount"
    /\ location = "/upload"
    /\ posts = <<>>
    /\ reports = <<>>
    /\ loading = TRUE
    /\ view = UploadPage(UploadInit)
    /\ SignedIn

NextUpload ==
    \/ \E selectedFile \in Files : handleFile(selectedFile)
    \/ RemoveFile
    \/ handleUpload
    \/ ProgressTick
    \/ StaleTick
    \/ UploadOk
    \/ UploadFail
    \/ RedirectTimeout
    \/ \E ok \in BOOLEAN : LeftPostSettles(ok)
    \/ \E to \in Paths : Navigate(to)
    \/ \E n \in 0..FewDashboardReports : LoadDashboardOk(n)
    \/ LoadDashboardFail

SpecUpload ==
    InitUpload /\ [][NextUpload]_vars /\ WF_vars(RedirectTimeout)

(***************************************************************************)
(* Notions the properties are stated in.                                   *)
(***************************************************************************)
N == Len(reports)
Shown == view.screen = "comparison"

\* the values the compared reports have for a metric
ValuesOf(key) == {reports[i][key] : i \in 1..N}
Least(S) == CHOOSE v \in S : \A w \in S : v <= w
Greatest(S) == CHOOSE v \in S : \A w \in S : v >= w

\* values a cell may be asked to classify
ProbeValues ==
    {0} \cup {RiskScores[i] : i \in 1..3} \cup {Budgets[i] : i \in 1..3}
        \cup {Durations[i] : i \in 1..3}

FlagsOf(r) == Len(r.risk_assessment.red_flags)

Penalty(rec) ==
    CASE rec = "NO" -> 50
      [] rec = "YES" -> -20
      [] OTHER -> 0

OpportunityScore(r) ==
    r.risk_score * 10 + FlagsOf(r) * 5 + Penalty(r.participation_recommendation)

RECURSIVE SumSeq(_)
SumSeq(s) == IF s = <<>> THEN 0 ELSE s[Len(s)] + SumSeq(SubSeq(s, 1, Len(s) - 1))

\* C1: for a non-empty report list the best value of risk_score,
\* duration_months and budget_min is the least value in the list and the
\* worst the greatest; for budget_max the best is the greatest and the worst
\* the least.
C1_Directionality ==
    N > 0 =>
      \A key \in Keys :
        IF key = "budget_max"
        THEN /\ getBestValue(key, reports) = Greatest(ValuesOf(key))
             /\ getWorstValue(key, reports) = Least(ValuesOf(key))
        ELSE /\ getBestValue(key, reports) = Least(ValuesOf(key))
             /\ getWorstValue(key, reports) = Greatest(ValuesOf(key))

C1_Witness ==
    /\ Shown
    /\ N = 3
    /\ \A key \in Keys : Cardinality(ValuesOf(key)) >= 2
    /\ Cardinality(ValuesOf("budget_max")) = 3

\* C2: for a non-empty report list and every metric, the best value is
\* classified BEST, the worst value WORST unless it equals the best (then
\* BEST; so for a single report, whose value is both), and a value equal to
\* neither NEUTRAL.
C2_Classification ==
    N > 0 =>
      \A key \in Keys :
        LET best == getBestValue(key, reports)
            worst == getWorstValue(key, reports)
        IN  /\ getValueColor(best, key, reports) = BEST
            /\ getValueColor(worst, key, reports) =
                 IF best = worst THEN BEST ELSE WORST
            /\ \A v \in ProbeValues \cup ValuesOf(key) :
                 v \notin {best, worst} =>
                   getValueColor(v, key, reports) = NEUTRAL
            /\ N = 1 =>
                 /\ best = reports[1][key]
                 /\ worst = reports[1][key]
                 /\ getValueColor(reports[1][key], key, reports) = BEST

C2_Witness ==
    /\ Shown
    /\ N = 3
    /\ view.budgetColor = <<WORST, BEST, NEUTRAL>>

\* C3: the score of a report is risk_score * 10 + 5 * (number of red flags)
\* + penalty, the penalty being 50 for "NO", -20 for "YES" and 0 for any
\* other recommendation; (2, no flags, YES) scores 0 and (8, 3 flags, NO)
\* scores 145.
C3_ScoreFormula ==
    \A i \in 1..N :
      LET r == reports[i]
          score == Scores(reports)[i].score
      IN  /\ Scores(reports)[i].report = r
          /\ score = OpportunityScore(r)
          /\ (r.risk_score = 2 /\ FlagsOf(r) = 0
                /\ r.participation_recommendation = "YES") => score = 0
          /\ (r.risk_score = 8 /\ FlagsOf(r) = 3
                /\ r.participation_recommendation = "NO") => score = 145
          /\ r.participation_recommendation \notin {"YES", "NO"} =>
                score = r.risk_score * 10 + FlagsOf(r) * 5

C3_Witness ==
    /\ Shown
    /\ \E i, j, k \in 1..N :
         /\ reports[i].risk_score = 2 /\ FlagsOf(reports[i]) = 0
         /\ reports[i].participation_recommendation = "YES"
         /\ reports[j].risk_score = 8 /\ FlagsOf(reports[j]) = 3
         /\ reports[j].participation_recommendation = "NO"
         /\ reports[k].participation_recommendation = "REVIEW"

\* C4: for a non-empty report list the best opportunity is the report of
\* least score that comes first in the list, and the ranking it heads is the
\* list sorted by ascending score, reports of equal score in list order.
C4_BestIsFirstMinimum ==
    (Shown /\ N > 0) =>
      LET ranked == Sort(Scores(reports))
      IN  /\ \E i \in 1..N :
               /\ view.banner = <<reports[i]>>
               /\ \A j \in 1..N :
                    OpportunityScore(reports[i]) <= OpportunityScore(reports[j])
               /\ \A j \in 1..(i - 1) :
                    OpportunityScore(reports[j]) > OpportunityScore(reports[i])
          /\ Len(ranked) = N
          /\ \A i \in 1..N : \E p \in 1..N : ranked[p].report = reports[i]
          /\ \A p, q \in 1..N :
               p < q =>
                 \/ ranked[p].score < ranked[q].score
                 \/ /\ ranked[p].score = ranked[q].score
                    /\ ranked[p].report.id < ranked[q].report.id

\* two reports of different fields tie on the least score, behind a worse one
C4_Witness ==
    /\ Shown
    /\ N = 3
    /\ OpportunityScore(reports[2]) = OpportunityScore(reports[3])
    /\ OpportunityScore(reports[2]) < OpportunityScore(reports[1])
    /\ reports[2].risk_score # reports[3].risk_score
    /\ view.banner = <<reports[2]>>

\* C5: an id list of fewer than 2 entries is rejected: no request is issued
\* and the user is sent to the dashboard, no comparison being rendered; an id
\* list of exactly 2 entries is not rejected and the request is issued.
C5_FewerThanTwoRejected ==
    pc # "mount" =>
      LET ids == ParseIds(idsParam)
      IN  /\ Len(ids) < 2 =>
               /\ pc = "rejected"
               /\ posts = <<>>
               /\ location = "/"
               /\ view = Dashboard
          /\ Len(ids) = 2 =>
               /\ pc # "rejected"
               /\ posts = <<ids>>

C5_Witness ==
    /\ pc = "rejected"
    /\ Len(ParseIds(idsParam)) = 1
    /\ idsParam.value = <<"2">>

\* C6: an id list with fewer than 2 distinct identifiers, of whatever
\* length, is rejected and no request is issued.
C6_DistinctIdsRequired ==
    pc # "mount" =>
      LET ids == ParseIds(idsParam)
      IN  Cardinality({ids[i] : i \in 1..Len(ids)}) < 2 =>
            /\ pc = "rejected"
            /\ posts = <<>>

\* C7: whenever the comparison is on the screen, at least 2 reports are
\* compared.
C7_AtLeastTwoCompared == Shown => N >= 2

EmptyInputError == [error |-> "EmptyInputError"]

\* C8: the summary of an empty report list is the EmptyInputError outcome,
\* not a record of numbers.
C8_EmptySummaryIsError == (Shown /\ N = 0) => view.summary = EmptyInputError

\* C9: with an empty report list findBestOpportunity returns null and the
\* rendered comparison has no recommendation banner.
C9_NoBestOfNone ==
    N = 0 =>
      /\ findBestOpportunity(reports) = Null
      /\ Shown => view.banner = <<>>

C9_Witness == Shown /\ N = 0 /\ pc = "done"

\* C10: for a non-empty list of n reports, avgRisk is the sum of the risk
\* scores over n, avgBudget the sum of the midpoints (budget_min +
\* budget_max) / 2 over n, and totalRedFlags the sum of the red flag counts.
C10_SummaryFormulas ==
    (Shown /\ N > 0) =>
      LET s == view.summary
          risk == SumSeq([i \in 1..N |-> reports[i].risk_score])
          budget == SumSeq([i \in 1..N |->
                              reports[i].budget_min + reports[i].budget_max])
          flags == SumSeq([i \in 1..N |-> FlagsOf(reports[i])])
      IN  /\ s.avgRisk.den > 0
          /\ s.avgRisk.num * N = risk * s.avgRisk.den
          /\ s.avgBudget.den > 0
          /\ s.avgBudget.num * 2 * N = budget * s.avgBudget.den
          /\ s.totalRedFlags = flags

\* three reports whose mean risk and mean budget are no integers
C10_Witness ==
    /\ Shown
    /\ N = 3
    /\ view.summary.avgRisk.den = 3
    /\ view.summary.avgBudget.den = 3
    /\ view.summary.totalRedFlags = 5

\* the bijections of 1..n onto itself
Perms(n) ==
    {p \in [1..n -> 1..n] : \A i, j \in 1..n : p[i] = p[j] => i = j}

\* C11: for a non-empty list with positive durations the displayed
\* avgDuration is the integer nearest to the mean duration, an exact half
\* rounded up: it is within 1/2 of the mean, and between the least and the
\* greatest duration.
C11_AvgDurationRounded ==
    (Shown /\ N > 0) =>
      LET d == view.summary.avgDuration
          sum == SumSeq([i \in 1..N |-> reports[i].duration_months])
      IN  /\ d.den = 1
          /\ 2 * d.num * N - N <= 2 * sum
          /\ 2 * sum < 2 * d.num * N + N
          /\ Least(ValuesOf("duration_months")) <= d.num
          /\ d.num <= Greatest(ValuesOf("duration_months"))

\* durations 6 and 9: the mean 7.5 is an exact half, shown as 8
C11_Witness ==
    /\ Shown
    /\ N = 2
    /\ reports[1].duration_months = 6
    /\ reports[2].duration_months = 9
    /\ view.summary.avgDuration = Num(8)

\* C12: the summary statistics are invariant under any permutation of the
\* report list: here the Average Risk cell, for risk scores with a fraction.
C12_AvgRiskPermutationInvariant ==
    Shown => \A p \in Perms(N) :
        AverageRisk([i \in 1..N |-> reports[p[i]]]) = view.avgRisk

\* the class of the cell that shows a metric of the i-th report; budget_min
\* has no cell of its own and is classified by the comparator
ClassOf(key, i) ==
    CASE key = "budget_max" -> view.budgetColor[i]
      [] key = "risk_score" -> view.riskColor[i]
      [] key = "duration_months" -> view.durationColor[i]
      [] OTHER -> getValueColor(reports[i][key], key, reports)

\* C13: two reports with equal values of a metric are classified alike;
\* every report that has the best value is BEST, and every report that has
\* the worst value is WORST (the worst value differing from the best).
C13_TiesClassifiedAlike ==
    (Shown /\ N > 0) =>
      \A key \in Keys :
        LET lo == Least(ValuesOf(key))
            hi == Greatest(ValuesOf(key))
            best == IF key = "budget_max" THEN hi ELSE lo
            worst == IF key = "budget_max" THEN lo ELSE hi
        IN  \A i \in 1..N :
              /\ reports[i][key] = best => ClassOf(key, i) = BEST
              /\ (reports[i][key] = worst /\ worst # best) =>
                    ClassOf(key, i) = WORST
              /\ \A j \in 1..N :
                    reports[i][key] = reports[j][key] =>
                      ClassOf(key, i) = ClassOf(key, j)

\* the specification's third example: durations 6, 6, 9
C13_Witness ==
    /\ Shown
    /\ [i \in 1..N |-> reports[i].duration_months] = <<6, 6, 9>>
    /\ view.durationColor = <<BEST, BEST, WORST>>

\* the classifications the output contains, by the metric they are of: the
\* Budget Range, Risk Score and Duration rows of the table
Classified ==
    [ budget_max |-> view.budgetColor,
      risk_score |-> view.riskColor,
      duration_months |-> view.durationColor ]

\* C14 as stated: the output contains, for every metric of Keys and every
\* compared report, the classification the comparator computes for that
\* metric.
C14_EveryMetricClassified ==
    (Shown /\ N > 0) =>
      \A key \in Keys :
        /\ key \in DOMAIN Classified
        /\ \A i \in 1..N :
             Classified[key][i] = getValueColor(reports[i][key], key, reports)

\* C14, amended: the output contains a classification for every compared
\* report and each of budget_max, risk_score and duration_months, computed
\* by the comparator for that metric; budget_min has none: the Budget Range
\* cell, which shows budget_min too, carries the class of budget_max.
C14_ShownMetricsClassified ==
    Shown =>
      /\ DOMAIN Classified = Keys \ {"budget_min"}
      /\ \A key \in DOMAIN Classified :
           /\ Len(Classified[key]) = N
           /\ \A i \in 1..N :
                Classified[key][i] =
                  getValueColor(reports[i][key], key, reports)

\* a Budget Range cell whose class is not the class of its budget_min
C14_Witness ==
    /\ Shown
    /\ N = 2
    /\ view.budgetColor[1] = BEST
    /\ getValueColor(reports[1].budget_min, "budget_min", reports) = WORST

\* C15 as stated: a Red Flags cell is classified like a lower-is-better
\* metric over the compared reports: BEST iff its count is the least count,
\* WORST iff it is the greatest count and that differs from the least,
\* NEUTRAL otherwise.
C15_RedFlagsLowerIsBetter ==
    (Shown /\ N > 0) =>
      LET counts == {FlagsOf(reports[i]) : i \in 1..N}
      IN  \A i \in 1..N :
            view.redFlagColor[i] =
              IF FlagsOf(reports[i]) = Least(counts) THEN BEST
              ELSE IF FlagsOf(reports[i]) = Greatest(counts) THEN WORST
              ELSE NEUTRAL

\* C15, amended: a Red Flags cell is classified by the report's own count,
\* whatever the other reports: BEST iff the count is 0, WORST iff it is 3 or
\* more, NEUTRAL for 1 or 2; when no report has a red flag every cell is BEST.
C15_RedFlagsByThreshold ==
    Shown =>
      /\ Len(view.redFlagColor) = N
      /\ \A i \in 1..N :
           view.redFlagColor[i] =
             IF FlagsOf(reports[i]) = 0 THEN BEST
             ELSE IF FlagsOf(reports[i]) >= 3 THEN WORST
             ELSE NEUTRAL
      /\ (\A i \in 1..N : FlagsOf(reports[i]) = 0) =>
            \A i \in 1..N : view.redFlagColor[i] = BEST

\* counts 2 and 3: the least count is not BEST
C15_Witness ==
    /\ Shown
    /\ N = 2
    /\ FlagsOf(reports[1]) = 2
    /\ FlagsOf(reports[2]) = 3
    /\ view.redFlagColor = <<NEUTRAL, WORST>>

\* C16: computing the best opportunity, the classifications and the summary
\* leaves the report list as it was retrieved: the render that follows the
\* fetch keeps the reports in retrieval order (a response numbers its reports
\* by their place) with their fields, and no later step, however many
\* renders there are, changes the list.
C16_InputUnchanged ==
    [][ pc' = "done" =>
          IF pc = "done" THEN reports' = reports
          ELSE \A i \in 1..Len(reports') :
                 /\ reports'[i].id = i
                 /\ [f \in DOMAIN reports'[i] \ {"id"} |-> reports'[i][f]]
                      \in Bodies ]_vars

\* a list that a sort by score would reorder, rendered
C16_Witness ==
    /\ Shown
    /\ N = 2
    /\ OpportunityScore(reports[1]) > OpportunityScore(reports[2])
    /\ view.banner = <<reports[2]>>
    /\ reports[1].id = 1

\* C17: the comparison on screen is the engine's result for the report list
\* the page holds, and for nothing else: whatever was computed before (the
\* same list on a render or a load before, or other lists), the best
\* opportunity, the classifications and the summary are those of the list;
\* and rendering once more leaves them as they are.
C17_ResultOfListAlone ==
    [][ (location' = "/compare" /\ pc' = "done") =>
          /\ view' = Comparison(FALSE, reports')
          /\ (pc = "done" /\ location = "/compare") => view' = view ]_vars

\* a comparison computed on a second load, after another list
C17_Witness ==
    /\ Shown
    /\ Len(posts) = 2
    /\ N = 2
    /\ view.banner = <<reports[2]>>

\* C18: whatever toggles, select-alls and clears came before, the Dashboard
\* page goes to the comparison page only with at least 2 and at most 5
\* reports selected, and the ids the URL then carries are the selected ids,
\* in the order of their selection; with any other number selected it stays.
C18_CompareWithinTwoAndFive ==
    [][ (location = "/" /\ location' = "/compare") =>
          /\ Len(dashboard.selectedReports) >= 2
          /\ Len(dashboard.selectedReports) <= 5
          /\ ParseIds(idsParam') = dashboard.selectedReports ]_vars

\* the comparison page reached with the second and the first report
\* selected, in this order
C18_Witness ==
    /\ location = "/compare"
    /\ idsParam = [present |-> TRUE, value |-> <<"2", "0", ",", "5">>]

\* a step in which the router renders a route: a load of the application, a
\* navigation by a button, the logout, the redirect after an upload
RouteRender ==
    \/ \E path \in Paths : OpenUrl(path) \/ Navigate(path)
    \/ handleLogout
    \/ RedirectTimeout

\* the screens of the pages behind PrivateRoute
ProtectedScreens == {"dashboard", "upload", "report", "comparison", "skeleton"}

\* C19: at every render of a route, a page of /, /upload, /report/:id or
\* /compare is shown only if local storage has an auth_token entry, and
\* without an entry the router ends at /login and shows the login page;
\* /login shows the login page with or without a token.
C19_ProtectedRoutes ==
    [][ RouteRender =>
          /\ view'.screen \in ProtectedScreens => authToken'.present
          /\ ~authToken'.present => location' = "/login" /\ view' = Login
          /\ OpenUrl("/login") => view' = Login ]_vars

\* the login page, reached without a token from an Upload page whose POST
\* is still pending
C19_Witness ==
    /\ location = "/login"
    /\ view = Login
    /\ ~authToken.present
    /\ background.posts = 1

\* C20: a file held by the Upload page has a name ending in .pdf, in any
\* case of the letters, and a size under 10 * 1024 * 1024 bytes.
C20_SelectedFileValid ==
    upload.file # Null =>
        /\ endsWith(toLowerCase(upload.file.name), <<".", "p", "d", "f">>)
        /\ upload.file.size < 10 * 1024 * 1024

\* C21: the report the recommendation banner names, with the words "Lowest
\* risk", has the least risk_score of the compared reports.
C21_BannerHasLowestRisk ==
    (Shown /\ view.banner # <<>>) =>
        view.banner[1].risk_score = Least(ValuesOf("risk_score"))

\* C22: when an upload request fails, uploading and uploadComplete are
\* false, the file is the one that was selected and uploadProgress is 0; and
\* while no upload runs, a progress of 0 stays 0: no tick of the simulated
\* progress changes it.
C22_FailedUploadStaysAtZero ==
    [][ /\ UploadFail =>
              /\ ~upload'.uploading
              /\ ~upload'.uploadComplete
              /\ upload'.file = upload.file
              /\ upload'.uploadProgress = 0
        /\ (~upload.uploading /\ upload.uploadProgress = 0
              /\ ~upload'.uploading) => upload'.uploadProgress = 0 ]_vars

\* C23: when the upload request succeeds, uploadProgress becomes 100 and
\* uploadComplete becomes true; uploadComplete becomes true by nothing else;
\* and once it is true the router is taken to the dashboard in the end.
C23_SuccessLeadsToDashboard ==
    /\ [][ /\ UploadOk => /\ upload'.uploadProgress = 100
                          /\ upload'.uploadComplete
           /\ (~upload.uploadComplete /\ upload'.uploadComplete) => UploadOk
        ]_vars
    /\ upload.uploadComplete ~> location = "/"

\* the Upload page after its request succeeded, the timeout pending
C23_Witness ==
    /\ location = "/upload"
    /\ upload.uploadComplete
    /\ upload.uploadProgress = 100
    /\ background.timers = 1

\* an upload request of the mounted Upload page is awaited
InFlight(up) == up.uploading /\ ~up.uploadComplete

\* C24: uploadProgress is always one of 0, 10, ..., 100; it is 100 exactly
\* when uploadComplete holds, which only a successful response sets; and
\* while a request is in flight it is at most 90 and no step lowers it.
C24_ProgressRange ==
    /\ [](/\ upload.uploadProgress \in {10 * k : k \in 0..10}
          /\ upload.uploadComplete <=> upload.uploadProgress = 100
          /\ InFlight(upload) => upload.uploadProgress <= 90)
    /\ [][ /\ (InFlight(upload) /\ InFlight(upload')) =>
                  upload'.uploadProgress >= upload.uploadProgress
           /\ (upload.uploadProgress # 100 /\ upload'.uploadProgress = 100)
                  => UploadOk ]_vars

\* a request in flight whose simulated progress has stopped at 90
C24_Witness ==
    /\ InFlight(upload)
    /\ upload.uploadProgress = 90
    /\ ~upload.interval

\* C25: at most one upload request is in flight at any time; the upload
\* button is there only with a file selected and neither uploading nor
\* uploadComplete, the remove button only while uploading is false, and no
\* file can be picked in place of a selected one.
C25_OneRequestInFlight ==
    /\ background.posts + (IF InFlight(upload) THEN 1 ELSE 0) <= 1
    /\ location = "/upload" =>
          /\ view.uploadButton =>
                /\ upload.file # Null
                /\ ~upload.uploading
                /\ ~upload.uploadComplete
          /\ view.removeButton => ~upload.uploading
          /\ view.dropZone => upload.file = Null

\* the reports a metric classifies as c
ClassSet(key, c) == {i \in 1..N : ClassOf(key, i) = c}

\* C26: for every metric of a non-empty comparison some report is BEST, and
\* no report is BEST and WORST at once; when the values of the metric are
\* not all equal some report is WORST as well, and no report holding the
\* best value is among the WORST.
C26_BestAndWorstSets ==
    (Shown /\ N > 0) =>
      \A key \in Keys :
        /\ ClassSet(key, BEST) # {}
        /\ ClassSet(key, BEST) \cap ClassSet(key, WORST) = {}
        /\ Cardinality(ValuesOf(key)) > 1 =>
              /\ ClassSet(key, WORST) # {}
              /\ \A i \in ClassSet(key, BEST), j \in ClassSet(key, WORST) :
                    reports[i][key] # reports[j][key]

\* two reports of equal duration and different risk: both BEST in the one
\* row, one BEST and one WORST in the other
C26_Witness ==
    /\ Shown
    /\ N = 2
    /\ view.durationColor = <<BEST, BEST>>
    /\ view.riskColor = <<WORST, BEST>>

\* the ids of a selection other than id, in their order
Others(sel, id) == SelectSeq(sel, LAMBDA x : x # id)

\* C27: the selection of the Dashboard page never holds an id twice and
\* holds only ids of loaded reports; a toggle puts the toggled id in when it
\* was out and takes it out when it was in, and the other selected ids stay,
\* in their order.
C27_SelectionWellFormed ==
    /\ [](/\ \A i, j \in 1..Len(dashboard.selectedReports) :
                dashboard.selectedReports[i] = dashboard.selectedReports[j]
                   => i = j
          /\ Range(dashboard.selectedReports) \subseteq Range(dashboard.reports))
    /\ [][ \A id \in Range(dashboard.reports) :
             toggleReportSelection(id) =>
               /\ id \in Range(dashboard.selectedReports')
                     <=> id \notin Range(dashboard.selectedReports)
               /\ Others(dashboard.selectedReports', id)
                     = Others(dashboard.selectedReports, id) ]_vars

\* of three or more reports the third and the first selected, in this order
C27_Witness ==
    /\ location = "/"
    /\ Len(dashboard.reports) >= 3
    /\ dashboard.selectedReports = <<45, 5>>

====
